---- MODULE Spec2Model ----
(***************************************************************************)
(* Electricity billing calculators: the tiered (block) tariff engine       *)
(* calculate_tiered_bill, the tier text parser parse_tiers and the flat    *)
(* calculator fixed_rate_bill.                                             *)
(*                                                                         *)
(* Quantities are exact fixed-point numbers.  One kWh unit of the model is *)
(* 5e-10 kWh, so that the tolerance 1e-9 of the completeness check is Tol  *)
(* units and one thousandth of a kWh, the resolution of the "%.3f" of the  *)
(* completeness message, is Milli units.  Rates and fees are integers of   *)
(* an arbitrary currency unit.  NaN and the infinities are not modelled.   *)
(***************************************************************************)
EXTENDS Integers, Sequences, FiniteSets, TLC

\* ------------------------------------------------------------- bounds
MaxTiers == 2
MaxKwh == 6
MaxBlock == 2
MaxNum == 2
MaxParseTiers == 2

\* ---------------------------------------------------------- constants
\* 1e-9 kWh, the tolerance of `remaining > 1e-9`
Tol == 2
\* 0.001 kWh, the last digit of f"{remaining:.3f}"
Milli == 2000000

\* ------------------------------------------------- values and records
\* Optional[float]: None is the empty tuple, a number n is <<n>>
None == <<>>
Some(n) == <<n>>

NoError == [kind |-> "none", text |-> "", arg |-> 0]
ValueError(text, arg) == [kind |-> "ValueError", text |-> text, arg |-> arg]
TypeError(text) == [kind |-> "TypeError", text |-> text, arg |-> 0]

TierBreakdown(tier_index, kwh, r, cost) ==
    [tier_index |-> tier_index, kwh |-> kwh, rate |-> r, cost |-> cost]

\* ------------------------------------------------------------- inputs
RateInputs == {-1, 0, 3}
FeeInputs == {-1, 0, 5}
BlockInputs == {None, Some(Milli)} \cup {Some(b) : b \in -1..MaxBlock}
ConsumptionInputs == (-1..MaxKwh) \cup {Milli - 1, Milli, Milli + 3}
TierInputs == {<<b, r>> : b \in BlockInputs, r \in RateInputs}
TierListInputs == UNION {[1..n -> TierInputs] : n \in 0..MaxTiers}

VARIABLES
    \* calculate_tiered_bill
    consumption_kwh, tier_list, fixed_fee, pc, idx, remaining, breakdown,
    error, result,
    \* fixed_rate_bill
    total_usage, rate, fee, fpc, ferror, fresult,
    \* parse_tiers
    tiers_src, style, ppc, parsed_json, parsed_short

tieredVars == <<consumption_kwh, tier_list, fixed_fee, pc, idx, remaining,
                breakdown, error, result>>
fixedVars == <<total_usage, rate, fee, fpc, ferror, fresult>>
parseVars == <<tiers_src, style, ppc, parsed_json, parsed_short>>
vars == <<tieredVars, fixedVars, parseVars>>

\* ------------------------------------------------- validation helpers
validate_common_swapped(c, f) ==
    IF f < 0 THEN ValueError("fixed_fee must be >= 0", 0)
    ELSE IF c < 0 THEN ValueError("consumption_kwh must be >= 0", 0)
    ELSE NoError

validate_common_rejects_zero(c, f) ==
    IF c <= 0 THEN ValueError("consumption_kwh must be >= 0", 0)
    ELSE IF f < 0 THEN ValueError("fixed_fee must be >= 0", 0)
    ELSE NoError

validate_common(c, f) ==
    IF c < 0 THEN ValueError("consumption_kwh must be >= 0", 0)
    ELSE IF f < 0 THEN ValueError("fixed_fee must be >= 0", 0)
    ELSE NoError

\* the checks of one tier, in the order of the loop body
validate_tier(i, block_kwh, r) ==
    IF r < 0 THEN ValueError("rate for tier must be >= 0", i)
    ELSE IF block_kwh # None /\ block_kwh[1] <= 0
         THEN ValueError("block_kwh for tier must be > 0 or None for unlimited", i)
    ELSE NoError

RECURSIVE validate_tiers_from(_, _)
validate_tiers_from(tl, i) ==
    IF i > Len(tl) THEN NoError
    ELSE LET e == validate_tier(i, tl[i][1], tl[i][2])
         IN  IF e # NoError THEN e ELSE validate_tiers_from(tl, i + 1)

validate_tier_list(tl) ==
    IF tl = <<>> THEN ValueError("tiers must be a non-empty list", 0)
    ELSE validate_tiers_from(tl, 1)

\* ----------------------------------------------------- core computation
Min(a, b) == IF a <= b THEN a ELSE b

\* if remaining <= 0: break
walk_stops_negative_only(rem) == rem < 0

walk_stops(rem) == rem <= 0

tier_block_none_is_zero(rem, block_kwh) ==
    IF block_kwh = None THEN 0 ELSE Min(rem, block_kwh[1])

tier_block_full(rem, block_kwh) ==
    IF block_kwh = None THEN rem ELSE block_kwh[1]

\* block = remaining if block_kwh is None else min(remaining, float(block_kwh))
tier_block(rem, block_kwh) ==
    IF block_kwh = None THEN rem ELSE Min(rem, block_kwh[1])

exceeds_no_tolerance(rem) == rem > 0

\* if remaining > 1e-9
exceeds(rem) == rem > Tol

\* f"{remaining:.3f}": the nearest multiple of 0.001, ties to the even one
format_3f(x) ==
    LET q == x \div Milli
        r == x % Milli
    IN  IF 2 * r < Milli THEN q * Milli
        ELSE IF 2 * r > Milli THEN (q + 1) * Milli
        ELSE IF q % 2 = 0 THEN q * Milli ELSE (q + 1) * Milli

RECURSIVE sum_cost(_)
sum_cost(bd) ==
    IF bd = <<>> THEN 0 ELSE bd[1].cost + sum_cost(Tail(bd))

bill_result_no_fee(bd, f) ==
    LET energy_cost == sum_cost(bd)
    IN  [breakdown |-> bd, energy_cost |-> energy_cost, fixed_fee |-> f,
         total |-> energy_cost]

bill_result(bd, f) ==
    LET energy_cost == sum_cost(bd)
    IN  [breakdown |-> bd, energy_cost |-> energy_cost, fixed_fee |-> f,
         total |-> energy_cost + f]

\* --------------------------------------- calculate_tiered_bill, by step
NoResult == <<>>

TieredInit ==
    /\ consumption_kwh \in ConsumptionInputs
    /\ tier_list \in TierListInputs
    /\ fixed_fee \in FeeInputs
    /\ pc = "validate_common"
    /\ idx = 0
    /\ remaining = 0
    /\ breakdown = <<>>
    /\ error = NoError
    /\ result = NoResult

Raise(e) ==
    /\ error' = e
    /\ pc' = "raised"

ValidateCommon ==
    /\ pc = "validate_common"
    /\ LET e == validate_common(consumption_kwh, fixed_fee)
       IN  IF e # NoError THEN Raise(e)
           ELSE pc' = "validate_tier_list" /\ UNCHANGED error
    /\ UNCHANGED <<consumption_kwh, tier_list, fixed_fee, idx, remaining,
                   breakdown, result>>
    /\ UNCHANGED <<fixedVars, parseVars>>

ValidateTierList ==
    /\ pc = "validate_tier_list"
    /\ LET e == validate_tier_list(tier_list)
       IN  IF e # NoError THEN Raise(e)
           ELSE pc' = "start" /\ UNCHANGED error
    /\ UNCHANGED <<consumption_kwh, tier_list, fixed_fee, idx, remaining,
                   breakdown, result>>
    /\ UNCHANGED <<fixedVars, parseVars>>

StartWalk ==
    /\ pc = "start"
    /\ remaining' = consumption_kwh
    /\ breakdown' = <<>>
    /\ idx' = 1
    /\ pc' = "walk"
    /\ UNCHANGED <<consumption_kwh, tier_list, fixed_fee, error, result>>
    /\ UNCHANGED <<fixedVars, parseVars>>

WalkTier ==
    /\ pc = "walk"
    /\ idx <= Len(tier_list)
    /\ ~walk_stops(remaining)
    /\ LET block_kwh == tier_list[idx][1]
           r == tier_list[idx][2]
           block == tier_block(remaining, block_kwh)
           cost == block * r
       IN  /\ breakdown' = Append(breakdown, TierBreakdown(idx, block, r, cost))
           /\ remaining' = remaining - block
    /\ idx' = idx + 1
    /\ UNCHANGED <<consumption_kwh, tier_list, fixed_fee, pc, error, result>>
    /\ UNCHANGED <<fixedVars, parseVars>>

WalkBreak ==
    /\ pc = "walk"
    /\ idx <= Len(tier_list)
    /\ walk_stops(remaining)
    /\ pc' = "check"
    /\ UNCHANGED <<consumption_kwh, tier_list, fixed_fee, idx, remaining,
                   breakdown, error, result>>
    /\ UNCHANGED <<fixedVars, parseVars>>

WalkEnd ==
    /\ pc = "walk"
    /\ idx > Len(tier_list)
    /\ pc' = "check"
    /\ UNCHANGED <<consumption_kwh, tier_list, fixed_fee, idx, remaining,
                   breakdown, error, result>>
    /\ UNCHANGED <<fixedVars, parseVars>>

RaiseOverflow ==
    /\ pc = "check"
    /\ exceeds(remaining)
    /\ Raise(ValueError("Consumption exceeds defined tiers by", format_3f(remaining)))
    /\ UNCHANGED <<consumption_kwh, tier_list, fixed_fee, idx, remaining,
                   breakdown, result>>
    /\ UNCHANGED <<fixedVars, parseVars>>

Return ==
    /\ pc = "check"
    /\ ~exceeds(remaining)
    /\ result' = Some(bill_result(breakdown, fixed_fee))
    /\ pc' = "done"
    /\ UNCHANGED <<consumption_kwh, tier_list, fixed_fee, idx, remaining,
                   breakdown, error>>
    /\ UNCHANGED <<fixedVars, parseVars>>

TieredNext ==
    \/ ValidateCommon
    \/ ValidateTierList
    \/ StartWalk
    \/ WalkTier
    \/ WalkBreak
    \/ WalkEnd
    \/ RaiseOverflow
    \/ Return

\* ------------------------------------------------------ fixed_rate_bill
\* a Python value: a number, a str holding the text of a number, or None
Number(n) == [type |-> "number", val |-> n]
Str(n) == [type |-> "str", val |-> n]
NoneValue == [type |-> "NoneType", val |-> 0]

FixedInputs == {Number(n) : n \in -1..MaxNum} \cup {Str(1), NoneValue}

less_than_zero_coercing(x) ==
    IF x.val < 0 THEN "True" ELSE "False"

\* x < 0: a bool for a number, TypeError for str and NoneType
less_than_zero(x) ==
    IF x.type = "number" THEN (IF x.val < 0 THEN "True" ELSE "False")
    ELSE "TypeError"

bill_amount_fee_in_rate(u, r, f) == u * (r + f)

\* total_usage * rate + fixed_fee
bill_amount(u, r, f) == u * r + f

FixedInit ==
    /\ total_usage \in FixedInputs
    /\ rate \in FixedInputs
    /\ fee \in FixedInputs
    /\ fpc = "cmp_total_usage"
    /\ ferror = NoError
    /\ fresult = NoResult

\* one operand of `total_usage < 0 or rate < 0 or fixed_fee < 0`: a true
\* operand ends the `or` and raises, a false one goes on to the next
Operand(here, x, next) ==
    /\ fpc = here
    /\ LET b == less_than_zero(x)
       IN  IF b = "TypeError"
           THEN /\ ferror' = TypeError("'<' not supported")
                /\ fpc' = "raised"
           ELSE IF b = "True"
           THEN /\ ferror' = ValueError("Inputs must be non-negative.", 0)
                /\ fpc' = "raised"
           ELSE /\ fpc' = next
                /\ UNCHANGED ferror
    /\ UNCHANGED <<total_usage, rate, fee, fresult>>
    /\ UNCHANGED <<tieredVars, parseVars>>

CompareTotalUsage == Operand("cmp_total_usage", total_usage, "cmp_rate")
CompareRate == Operand("cmp_rate", rate, "cmp_fixed_fee")
CompareFixedFee == Operand("cmp_fixed_fee", fee, "return")

FixedReturn ==
    /\ fpc = "return"
    /\ fresult' = Some(bill_amount(total_usage.val, rate.val, fee.val))
    /\ fpc' = "done"
    /\ UNCHANGED <<total_usage, rate, fee, ferror>>
    /\ UNCHANGED <<tieredVars, parseVars>>

FixedNext ==
    \/ CompareTotalUsage
    \/ CompareRate
    \/ CompareFixedFee
    \/ FixedReturn

\* ----------------------------------------------------------- parse_tiers
\* A text is a sequence of one-character strings.  A float is held in tenths:
\* float("1.5") is 15 and float("20") is 200.
Digits == {"0", "1", "2", "3", "4", "5", "6", "7", "8", "9"}

DigitValue(c) ==
    CASE c = "0" -> 0 [] c = "1" -> 1 [] c = "2" -> 2 [] c = "3" -> 3
      [] c = "4" -> 4 [] c = "5" -> 5 [] c = "6" -> 6 [] c = "7" -> 7
      [] c = "8" -> 8 [] c = "9" -> 9

RECURSIVE LStrip(_)
LStrip(s) == IF s # <<>> /\ Head(s) = " " THEN LStrip(Tail(s)) ELSE s

RECURSIVE RStrip(_)
RStrip(s) ==
    IF s # <<>> /\ s[Len(s)] = " " THEN RStrip(SubSeq(s, 1, Len(s) - 1)) ELSE s

\* str.strip()
Strip(s) == RStrip(LStrip(s))

\* str.split(c): the parts between the occurrences of c, at least one part
RECURSIVE Split(_, _)
Split(s, c) ==
    IF \A i \in 1..Len(s) : s[i] # c THEN <<s>>
    ELSE LET i == CHOOSE k \in 1..Len(s) :
                      s[k] = c /\ \A j \in 1..(k - 1) : s[j] # c
         IN  <<SubSeq(s, 1, i - 1)>> \o Split(SubSeq(s, i + 1, Len(s)), c)

RECURSIVE IntOf(_)
IntOf(ds) ==
    IF ds = <<>> THEN 0
    ELSE IntOf(SubSeq(ds, 1, Len(ds) - 1)) * 10 + DigitValue(ds[Len(ds)])

\* the value, in tenths, of the decimal literal `int` or `int.frac`
decimal_value(lit) ==
    LET parts == Split(lit, ".")
        frac == IF Len(parts) > 1 THEN parts[2] ELSE <<>>
    IN  IntOf(parts[1]) * 10 + (IF frac = <<>> THEN 0 ELSE DigitValue(frac[1]))

IsDecimal(lit) ==
    /\ \A i \in 1..Len(lit) : lit[i] \in Digits \cup {"."}
    /\ Cardinality({i \in 1..Len(lit) : lit[i] = "."}) <= 1
    /\ \E i \in 1..Len(lit) : lit[i] \in Digits

\* float(s) of a str: None stands for the ValueError of a text that is no number
float_of_str(s) ==
    LET t == Strip(s)
    IN  IF IsDecimal(t) THEN Some(decimal_value(t)) ELSE None

ParseOk(tiers) == [ok |-> TRUE, tiers |-> tiers, err |-> NoError]
ParseFail(e) == [ok |-> FALSE, tiers |-> <<>>, err |-> e]

unlimited_tokens_star_only == {<<"*">>}

\* {"*", "None", "null"}
unlimited_tokens == {<<"*">>, <<"N", "o", "n", "e">>, <<"n", "u", "l", "l">>}

\* the loop over t.split(',') of the shorthand branch
RECURSIVE shorthand_parts(_, _)
shorthand_parts(parts, out) ==
    IF parts = <<>> THEN ParseOk(out)
    ELSE LET fields == Split(Strip(Head(parts)), "@")
         IN  IF Len(fields) # 2 THEN ParseFail(ValueError("unpack", Len(fields)))
             ELSE LET size_s == fields[1]
                      rate_s == fields[2]
                      unlimited == Strip(size_s) \in unlimited_tokens
                      size == IF unlimited THEN None ELSE float_of_str(size_s)
                      r == float_of_str(rate_s)
                  IN  IF ~unlimited /\ size = None
                      THEN ParseFail(ValueError("could not convert string to float", 1))
                      ELSE IF r = None
                      THEN ParseFail(ValueError("could not convert string to float", 2))
                      ELSE shorthand_parts(Tail(parts), Append(out, <<size, r[1]>>))

\* json.loads on arrays, numbers and null.  A JSON value is <<"null">>,
\* <<"num", v>> or <<"arr", items>>.
JsonFail == [ok |-> FALSE, val |-> <<"null">>, pos |-> 0]
JsonOk(val, pos) == [ok |-> TRUE, val |-> val, pos |-> pos]

RECURSIVE SkipWs(_, _)
SkipWs(s, p) == IF p <= Len(s) /\ s[p] = " " THEN SkipWs(s, p + 1) ELSE p

RECURSIVE NumberEnd(_, _)
NumberEnd(s, p) ==
    IF p <= Len(s) /\ s[p] \in Digits \cup {"."} THEN NumberEnd(s, p + 1) ELSE p

\* the JSON number grammar: int, or int "." digits
IsJsonNumber(lit) ==
    /\ IsDecimal(lit)
    /\ lit[1] # "." /\ lit[Len(lit)] # "."
    /\ (Len(lit) > 1 /\ lit[1] = "0") => lit[2] = "."

RECURSIVE json_value(_, _), json_elements(_, _, _)
json_value(s, p0) ==
    LET p == SkipWs(s, p0)
    IN  IF p > Len(s) THEN JsonFail
        ELSE IF s[p] = "["
        THEN LET q == SkipWs(s, p + 1)
             IN  IF q <= Len(s) /\ s[q] = "]" THEN JsonOk(<<"arr", <<>>>>, q + 1)
                 ELSE json_elements(s, q, <<>>)
        ELSE IF s[p] = "n"
        THEN IF p + 3 <= Len(s) /\ SubSeq(s, p, p + 3) = <<"n", "u", "l", "l">>
             THEN JsonOk(<<"null">>, p + 4)
             ELSE JsonFail
        ELSE IF s[p] \in Digits
        THEN LET e == NumberEnd(s, p)
                 lit == SubSeq(s, p, e - 1)
             IN  IF IsJsonNumber(lit) THEN JsonOk(<<"num", decimal_value(lit)>>, e)
                 ELSE JsonFail
        ELSE JsonFail

json_elements(s, p, acc) ==
    LET r == json_value(s, p)
    IN  IF ~r.ok THEN JsonFail
        ELSE LET q == SkipWs(s, r.pos)
             IN  IF q > Len(s) THEN JsonFail
                 ELSE IF s[q] = "," THEN json_elements(s, q + 1, Append(acc, r.val))
                 ELSE IF s[q] = "]" THEN JsonOk(<<"arr", Append(acc, r.val)>>, q + 1)
                 ELSE JsonFail

json_loads(s) ==
    LET r == json_value(s, 1)
    IN  IF r.ok /\ SkipWs(s, r.pos) > Len(s) THEN r ELSE JsonFail

\* the loop over data of the JSON branch
RECURSIVE json_pairs(_, _)
json_pairs(data, out) ==
    IF data = <<>> THEN ParseOk(out)
    ELSE LET pair == Head(data)
         IN  IF pair[1] # "arr" THEN ParseFail(TypeError("cannot unpack"))
             ELSE IF Len(pair[2]) # 2 THEN ParseFail(ValueError("unpack", Len(pair[2])))
             ELSE LET size == pair[2][1]
                      r == pair[2][2]
                  IN  IF size[1] = "arr" \/ r[1] # "num"
                      THEN ParseFail(TypeError("float() argument"))
                      ELSE json_pairs(Tail(data),
                               Append(out, <<IF size[1] = "null" THEN None
                                             ELSE Some(size[2]), r[2]>>))

parse_tiers(text) ==
    IF text = <<>> THEN ParseFail(ValueError("tiers text is empty", 0))
    ELSE LET t == Strip(text)
         IN  IF t # <<>> /\ t[1] = "["
             THEN LET data == json_loads(t)
                  IN  IF ~data.ok THEN ParseFail(ValueError("JSONDecodeError", 0))
                      ELSE IF data.val[1] # "arr"
                      THEN ParseFail(TypeError("not iterable"))
                      ELSE json_pairs(data.val[2], <<>>)
             ELSE shorthand_parts(Split(t, ","), <<>>)

\* the tiers a text is written from: each number with its literal and its
\* value in tenths; a size is None or Some(number)
Literal(lit, val) == [lit |-> lit, val |-> val]
SizeInputs == {None, Some(Literal(<<"2", "0">>, 200)), Some(Literal(<<"1", ".", "5">>, 15))}
RateLiteralInputs == {Literal(<<"0", ".", "2">>, 2), Literal(<<"3">>, 30)}
ParseTierInputs == {<<sz, r>> : sz \in SizeInputs, r \in RateLiteralInputs}
ParseListInputs == UNION {[1..n -> ParseTierInputs] : n \in 0..MaxParseTiers}
\* how the shorthand is written: the unlimited token and the separator
StyleInputs ==
    {[token |-> tok, sep |-> sp] :
        tok \in {<<"*">>, <<"N", "o", "n", "e">>, <<"n", "u", "l", "l">>},
        sp \in {<<",">>, <<",", " ">>}}

RECURSIVE Join(_, _)
Join(parts, sep) ==
    IF parts = <<>> THEN <<>>
    ELSE IF Len(parts) = 1 THEN parts[1]
    ELSE parts[1] \o sep \o Join(Tail(parts), sep)

\* json.dumps of the tiers
JsonForm(tiers) ==
    <<"[">> \o
    Join([k \in 1..Len(tiers) |->
            <<"[">> \o (IF tiers[k][1] = None THEN <<"n", "u", "l", "l">>
                        ELSE tiers[k][1][1].lit)
                    \o <<",", " ">> \o tiers[k][2].lit \o <<"]">>],
         <<",", " ">>) \o
    <<"]">>

\* the same tiers as size@rate entries
ShorthandForm(tiers, st) ==
    Join([k \in 1..Len(tiers) |->
            (IF tiers[k][1] = None THEN st.token ELSE tiers[k][1][1].lit)
                \o <<"@">> \o tiers[k][2].lit],
         st.sep)

ParseInit ==
    /\ tiers_src \in ParseListInputs
    /\ style \in StyleInputs
    /\ ppc = "json"
    /\ parsed_json = NoResult
    /\ parsed_short = NoResult

ParseJsonForm ==
    /\ ppc = "json"
    /\ parsed_json' = Some(parse_tiers(JsonForm(tiers_src)))
    /\ ppc' = "shorthand"
    /\ UNCHANGED <<tiers_src, style, parsed_short>>
    /\ UNCHANGED <<tieredVars, fixedVars>>

ParseShorthandForm ==
    /\ ppc = "shorthand"
    /\ parsed_short' = Some(parse_tiers(ShorthandForm(tiers_src, style)))
    /\ ppc' = "done"
    /\ UNCHANGED <<tiers_src, style, parsed_json>>
    /\ UNCHANGED <<tieredVars, fixedVars>>

ParseNext ==
    \/ ParseJsonForm
    \/ ParseShorthandForm

\* ------------------------------------------------------ idle components
FixedIdle ==
    /\ total_usage = 0 /\ rate = 0 /\ fee = 0
    /\ fpc = "idle" /\ ferror = NoError /\ fresult = NoResult

ParseIdle ==
    /\ tiers_src = <<>> /\ style = <<>>
    /\ ppc = "idle" /\ parsed_json = NoResult /\ parsed_short = NoResult

TieredIdle ==
    /\ consumption_kwh = 0 /\ tier_list = <<>> /\ fixed_fee = 0
    /\ pc = "idle" /\ idx = 0 /\ remaining = 0 /\ breakdown = <<>>
    /\ error = NoError /\ result = NoResult

\* ------------------------------------------------------- specifications
Init == TieredInit /\ FixedIdle /\ ParseIdle
Next == TieredNext
Spec == Init /\ [][Next]_vars

InitFixedRate == FixedInit /\ TieredIdle /\ ParseIdle
NextFixedRate == FixedNext
SpecFixedRate == InitFixedRate /\ [][NextFixedRate]_vars

InitParse == ParseInit /\ TieredIdle /\ FixedIdle
NextParse == ParseNext
SpecParse == InitParse /\ [][NextParse]_vars

\* ---------------------------------------------- vocabulary of the claims
Terminal == pc \in {"done", "raised"}

IsUnlimited(tier) == tier[1] = None

HasUnlimited == \E i \in 1..Len(tier_list) : IsUnlimited(tier_list[i])

ValidTier(tier) == tier[2] >= 0 /\ (IsUnlimited(tier) \/ tier[1][1] > 0)

ValidInputs ==
    /\ consumption_kwh >= 0
    /\ fixed_fee >= 0
    /\ Len(tier_list) > 0
    /\ \A i \in 1..Len(tier_list) : ValidTier(tier_list[i])

RECURSIVE SumBlocks(_)
SumBlocks(tl) ==
    IF tl = <<>> THEN 0
    ELSE (IF IsUnlimited(Head(tl)) THEN 0 ELSE Head(tl)[1][1]) + SumBlocks(Tail(tl))

RECURSIVE SumKwh(_)
SumKwh(bd) == IF bd = <<>> THEN 0 ELSE Head(bd).kwh + SumKwh(Tail(bd))

RECURSIVE SumEntryCosts(_)
SumEntryCosts(bd) == IF bd = <<>> THEN 0 ELSE Head(bd).cost + SumEntryCosts(Tail(bd))

Abs(x) == IF x < 0 THEN 0 - x ELSE x

WithinCapacity == HasUnlimited \/ consumption_kwh <= SumBlocks(tier_list)

IsOverflowError == pc = "raised" /\ error.text = "Consumption exceeds defined tiers by"

\* C1: for valid inputs whose consumption does not exceed the total tier
\* capacity (unbounded with an unlimited tier) the call returns a result whose
\* breakdown kWh sum to the consumption, within the tolerance.
C1_KwhSumsToConsumption ==
    (Terminal /\ ValidInputs /\ WithinCapacity) =>
        /\ pc = "done"
        /\ result # NoResult
        /\ Abs(SumKwh(result[1].breakdown) - consumption_kwh) <= Tol

\* a returned bill of two entries whose second tier is only partly used
C1_Witness ==
    /\ pc = "done" /\ ValidInputs /\ WithinCapacity
    /\ Len(result[1].breakdown) = 2
    /\ ~IsUnlimited(tier_list[2])
    /\ result[1].breakdown[2].kwh < tier_list[2][1][1]

\* C2: in every result each entry's cost is its kwh times its tier's rate,
\* energy_cost is the sum of the entry costs, fixed_fee is the fee supplied,
\* total = energy_cost + fixed_fee, and total >= energy_cost >= 0.
C2_ResultArithmetic ==
    pc = "done" =>
        LET res == result[1]
            bd == res.breakdown
        IN  /\ \A k \in 1..Len(bd) :
                  /\ bd[k].rate = tier_list[bd[k].tier_index][2]
                  /\ bd[k].cost = bd[k].kwh * tier_list[bd[k].tier_index][2]
            /\ res.energy_cost = SumEntryCosts(bd)
            /\ res.fixed_fee = fixed_fee
            /\ res.total = res.energy_cost + res.fixed_fee
            /\ res.total >= res.energy_cost
            /\ res.energy_cost >= 0

\* a returned bill with two costed entries and a positive fee
C2_Witness ==
    /\ pc = "done"
    /\ Len(result[1].breakdown) = 2
    /\ result[1].breakdown[1].cost > 0
    /\ result[1].breakdown[2].cost > 0
    /\ fixed_fee > 0

OverflowExactly ==
    (Terminal /\ ValidInputs) =>
        (IsOverflowError <=>
            (~HasUnlimited /\ consumption_kwh - SumBlocks(tier_list) > Tol))

OverflowAfterWalk ==
    IsOverflowError =>
        /\ result = NoResult
        /\ idx = Len(tier_list) + 1
        /\ Len(breakdown) = Len(tier_list)

\* C3 as stated: the completeness error is raised exactly when no tier is
\* unlimited and the consumption exceeds the sum of the block sizes by more
\* than the tolerance, after the whole walk, and the excess it reports equals
\* consumption minus the sum of the block sizes.
C3_ReportsExactExcess ==
    /\ OverflowExactly
    /\ OverflowAfterWalk
    /\ IsOverflowError => error.arg = consumption_kwh - SumBlocks(tier_list)

\* C3 amended: as C3, but the excess reported is consumption minus the sum of
\* the block sizes rounded to the nearest thousandth of a kWh.
C3_ReportsRoundedExcess ==
    /\ OverflowExactly
    /\ OverflowAfterWalk
    /\ IsOverflowError =>
          /\ error.arg % Milli = 0
          /\ 2 * Abs(error.arg - (consumption_kwh - SumBlocks(tier_list))) <= Milli

\* a completeness error whose excess is not a whole number of thousandths
C3_Witness ==
    /\ IsOverflowError
    /\ Len(tier_list) = 2
    /\ (consumption_kwh - SumBlocks(tier_list)) % Milli # 0
    /\ error.arg > 0

\* the first failing check, in the order the claim gives
FirstBadTier ==
    CHOOSE i \in 1..Len(tier_list) :
        /\ ~ValidTier(tier_list[i])
        /\ \A j \in 1..(i - 1) : ValidTier(tier_list[j])

ExpectedValidationError ==
    IF consumption_kwh < 0 THEN ValueError("consumption_kwh must be >= 0", 0)
    ELSE IF fixed_fee < 0 THEN ValueError("fixed_fee must be >= 0", 0)
    ELSE IF Len(tier_list) = 0 THEN ValueError("tiers must be a non-empty list", 0)
    ELSE IF tier_list[FirstBadTier][2] < 0
         THEN ValueError("rate for tier must be >= 0", FirstBadTier)
    ELSE ValueError("block_kwh for tier must be > 0 or None for unlimited", FirstBadTier)

\* C4: validation comes before any computation and reports the first failing
\* check in the order consumption, fixed fee, empty list, then per tier rate
\* before block size; it wins over the completeness error and is reported
\* even for a tier the walk would not reach.
C4_ValidationOrder ==
    /\ (pc \in {"validate_common", "validate_tier_list", "start"}) =>
          (idx = 0 /\ breakdown = <<>> /\ remaining = 0)
    /\ (Terminal /\ ~ValidInputs) =>
          /\ pc = "raised"
          /\ error = ExpectedValidationError
          /\ result = NoResult
          /\ idx = 0 /\ breakdown = <<>>
    /\ (Terminal /\ ValidInputs) => (pc = "done" \/ IsOverflowError)

\* tier 2 fails both of its checks, behind an unlimited tier 1 that would
\* absorb all the consumption
C4_Witness ==
    /\ pc = "raised"
    /\ consumption_kwh > 0 /\ fixed_fee >= 0
    /\ Len(tier_list) = 2
    /\ IsUnlimited(tier_list[1]) /\ tier_list[1][2] >= 0
    /\ tier_list[2][2] < 0 /\ tier_list[2][1] = Some(0)
    /\ error = ValueError("rate for tier must be >= 0", 2)

\* C5: whenever tier i has a breakdown entry, every tier j < i is finite and
\* has an entry whose kwh equals its full block size.
C5_TiersInListOrder ==
    pc = "done" =>
        LET bd == result[1].breakdown
        IN  \A k \in 1..Len(bd) : \A j \in 1..(bd[k].tier_index - 1) :
                /\ ~IsUnlimited(tier_list[j])
                /\ \E m \in 1..Len(bd) :
                      bd[m].tier_index = j /\ bd[m].kwh = tier_list[j][1][1]

\* a bill whose second tier was reached after a full first tier
C5_Witness ==
    /\ pc = "done"
    /\ Len(result[1].breakdown) = 2
    /\ result[1].breakdown[2].tier_index = 2
    /\ result[1].breakdown[1].kwh = tier_list[1][1][1]

\* C6: zero consumption with valid tiers and fee returns an empty breakdown,
\* energy_cost 0 and total = fixed_fee, and is never an error.
C6_ZeroConsumption ==
    (Terminal /\ ValidInputs /\ consumption_kwh = 0) =>
        /\ pc = "done"
        /\ error = NoError
        /\ result[1].breakdown = <<>>
        /\ result[1].energy_cost = 0
        /\ result[1].total = fixed_fee

\* zero consumption billed against finite tiers only, with a fee
C6_Witness ==
    /\ pc = "done" /\ consumption_kwh = 0
    /\ ~HasUnlimited /\ Len(tier_list) = 2 /\ fixed_fee > 0
    /\ result[1].total = fixed_fee

\* C10: the entries of a result are those of tiers 1..k in order, each with
\* kwh > 0; there is no entry for the tier at which the remaining consumption
\* is zero nor after it, so an unlimited tier's entry is the last one.
C10_OnlyTouchedTiers ==
    pc = "done" =>
        LET bd == result[1].breakdown
        IN  /\ Len(bd) <= Len(tier_list)
            /\ \A k \in 1..Len(bd) :
                  /\ bd[k].tier_index = k
                  /\ bd[k].kwh > 0
                  /\ SumKwh(SubSeq(bd, 1, k - 1)) < consumption_kwh
                  /\ IsUnlimited(tier_list[k]) => k = Len(bd)
            /\ (Len(bd) < Len(tier_list)) => SumKwh(bd) = consumption_kwh

\* the consumption is used up exactly at the end of tier 1: tier 2 has no entry
C10_Witness ==
    /\ pc = "done"
    /\ Len(tier_list) = 2
    /\ Len(result[1].breakdown) = 1
    /\ ~IsUnlimited(tier_list[1])
    /\ consumption_kwh = tier_list[1][1][1]

\* ------------------------------------------------ fixed_rate_bill claims
FixedTerminal == fpc \in {"done", "raised"}

FixedArgs == <<total_usage, rate, fee>>

AllNumeric == \A k \in 1..3 : FixedArgs[k].type = "number"

IsNegative(x) == x.type = "number" /\ x.val < 0

\* C7: with three numeric inputs fixed_rate_bill raises the validation error
\* if any of them is negative and otherwise returns total_usage * rate +
\* fixed_fee, which is fixed_fee for zero usage or zero rate.
C7_FixedRateBill ==
    (FixedTerminal /\ AllNumeric) =>
        IF \E k \in 1..3 : FixedArgs[k].val < 0
        THEN /\ fpc = "raised"
             /\ ferror = ValueError("Inputs must be non-negative.", 0)
             /\ fresult = NoResult
        ELSE /\ fpc = "done"
             /\ ferror = NoError
             /\ fresult = Some(total_usage.val * rate.val + fee.val)
             /\ (total_usage.val = 0 \/ rate.val = 0) => fresult = Some(fee.val)

\* a bill returned for positive usage, rate and fee
C7_Witness ==
    /\ fpc = "done" /\ AllNumeric
    /\ total_usage.val = 2 /\ rate.val = 1 /\ fee.val = 2
    /\ fresult = Some(4)

SomeNonNumeric == \E k \in 1..3 : FixedArgs[k].type # "number"

\* C8 as stated: a non-numeric value in any of the three inputs raises the
\* type error, not the validation error, and no value is returned, whatever
\* the other two inputs are.
C8_NonNumericRaisesTypeError ==
    (FixedTerminal /\ SomeNonNumeric) =>
        /\ fpc = "raised"
        /\ ferror.kind = "TypeError"
        /\ fresult = NoResult

FirstNonNumeric == CHOOSE k \in 1..3 :
    /\ FixedArgs[k].type # "number"
    /\ \A j \in 1..(k - 1) : FixedArgs[j].type = "number"

\* C8 amended: a non-numeric value in any of the three inputs never returns
\* a value; it raises the type error unless an input before it, in the order
\* total_usage, rate, fixed_fee, is a negative number, and then the
\* validation error is raised.
C8_NonNumericNeverReturns ==
    (FixedTerminal /\ SomeNonNumeric) =>
        /\ fpc = "raised"
        /\ fresult = NoResult
        /\ IF \E j \in 1..(FirstNonNumeric - 1) : IsNegative(FixedArgs[j])
           THEN ferror = ValueError("Inputs must be non-negative.", 0)
           ELSE ferror.kind = "TypeError"

\* a text rate after a negative usage: the validation error is raised
C8_Witness ==
    /\ fpc = "raised"
    /\ IsNegative(total_usage) /\ rate.type = "str" /\ fee.type = "number"
    /\ ferror.kind = "ValueError"

\* ---------------------------------------------------- parse_tiers claims
\* the structured tier list the texts are written from
ExpectedTiers ==
    [k \in 1..Len(tiers_src) |->
        <<IF tiers_src[k][1] = None THEN None ELSE Some(tiers_src[k][1][1].val),
          tiers_src[k][2].val>>]

\* C9: parse_tiers on the JSON form and on the shorthand form of the same
\* tiers gives the same tier list, in the order of the input, with JSON null
\* and each of the tokens *, None, null as the unlimited sentinel and every
\* other size and rate as the same number.
C9_ParseRoundTrip ==
    (ppc = "done" /\ Len(tiers_src) >= 1) =>
        /\ parsed_json[1].ok
        /\ parsed_short[1].ok
        /\ parsed_json[1].tiers = parsed_short[1].tiers
        /\ parsed_json[1].tiers = ExpectedTiers

\* two tiers, the unlimited one written "null" in the shorthand, both parsed
C9_Witness ==
    /\ ppc = "done"
    /\ Len(tiers_src) = 2
    /\ tiers_src[1][1] # None /\ tiers_src[2][1] = None
    /\ style.token = <<"n", "u", "l", "l">>
    /\ parsed_short[1].ok
    /\ parsed_short[1].tiers[2][1] = None
    /\ parsed_json[1].tiers[1][1] = Some(tiers_src[1][1][1].val)

====
